---------------------------- MODULE Spec2Model ----------------------------
(* A model of the media service (src/src/mediaserver.py): the two request   *)
(* handlers serve and upload, the error handler that renders typed errors,  *)
(* the lazy chunk generator of a response, and the shutdown hook registered *)
(* with atexit.  Text (header names, base64 text, mimetypes) is a sequence  *)
(* of character codes, bytes are numbers in 0..255.                         *)
EXTENDS Integers, Sequences, FiniteSets, TLC

VARIABLES
    database,        \* the Database object: mediafile id -> stored row
    uploaded,        \* history: per id, the file and mimetype of the last upload that succeeded
    last,            \* the request handled last, with the response it was given
    proc,            \* the process: "running", or how it ended
    shutdown_calls,  \* how many times shutdown(database) ran
    reader,          \* a retrieval whose response is being streamed
    block_size       \* app.config["BLOCK_SIZE"]

vars == <<database, uploaded, last, proc, shutdown_calls, reader, block_size>>

-----------------------------------------------------------------------------
(* Bounds of the model.                                                      *)

\* the service specifications upload every blob up to this length
MaxLen == 1
\* largest configured BLOCK_SIZE in the service specifications
MaxBlock == 2
\* longest source and largest size handed to the chunk generator in the
\* chunking specification
MaxSrcLen == 4
MaxSize == 3
\* longest raw `file` text tried in the validation specification
MaxFileLen == 4

-----------------------------------------------------------------------------
(* Text helpers.                                                             *)

RECURSIVE SeqsUpTo(_, _)
SeqsUpTo(S, n) ==
    IF n = 0 THEN {<<>>}
    ELSE LET shorter == SeqsUpTo(S, n - 1)
         IN shorter \cup {Append(s, c) : s \in {t \in shorter : Len(t) = n - 1}, c \in S}

RECURSIVE Concat(_)
Concat(chunks) ==
    IF chunks = <<>> THEN <<>> ELSE Head(chunks) \o Concat(Tail(chunks))

\* Python's `sub in key` on str: a case-sensitive substring test
Contains(key, sub) ==
    \E i \in 1..(Len(key) - Len(sub) + 1) : SubSeq(key, i, i + Len(sub) - 1) = sub

LowerChar(c) == IF c >= 65 /\ c <= 90 THEN c + 32 ELSE c
Lower(s) == [i \in 1..Len(s) |-> LowerChar(s[i])]

-----------------------------------------------------------------------------
(* base64, as base64.b64decode(s) runs it (binascii.a2b_base64, not strict). *)

PadChar == 61

\* the value of a character of the base64 alphabet, 64 for any other character
B64Val(c) ==
    IF c >= 65 /\ c <= 90 THEN c - 65
    ELSE IF c >= 97 /\ c <= 122 THEN c - 71
    ELSE IF c >= 48 /\ c <= 57 THEN c + 4
    ELSE IF c = 43 THEN 62
    ELSE IF c = 47 THEN 63
    ELSE 64

B64Char(v) ==
    IF v < 26 THEN v + 65
    ELSE IF v < 52 THEN v + 71
    ELSE IF v < 62 THEN v - 4
    ELSE IF v = 62 THEN 43
    ELSE 47

\* one character consumed by the decoder's loop
A2bStep(st, c) ==
    IF st.done THEN st
    ELSE IF c = PadChar THEN
        IF st.quad_pos >= 2 /\ st.quad_pos + st.pads + 1 >= 4
        THEN [st EXCEPT !.pads = @ + 1, !.done = TRUE]
        ELSE IF st.quad_pos >= 2 THEN [st EXCEPT !.pads = @ + 1]
        ELSE st
    ELSE IF B64Val(c) >= 64 THEN st
    ELSE LET v == B64Val(c) IN
        CASE st.quad_pos = 0 ->
                [st EXCEPT !.pads = 0, !.quad_pos = 1, !.leftchar = v]
          [] st.quad_pos = 1 ->
                [st EXCEPT !.pads = 0, !.quad_pos = 2,
                           !.out = Append(@, (st.leftchar * 4 + v \div 16) % 256),
                           !.leftchar = v % 16]
          [] st.quad_pos = 2 ->
                [st EXCEPT !.pads = 0, !.quad_pos = 3,
                           !.out = Append(@, (st.leftchar * 16 + v \div 4) % 256),
                           !.leftchar = v % 4]
          [] OTHER ->
                [st EXCEPT !.pads = 0, !.quad_pos = 0,
                           !.out = Append(@, (st.leftchar * 64 + v) % 256),
                           !.leftchar = 0]

RECURSIVE A2bLoop(_, _, _)
A2bLoop(s, i, st) ==
    IF i > Len(s) THEN st ELSE A2bLoop(s, i + 1, A2bStep(st, s[i]))

\* base64.b64decode(s): [ok, data]; ok = FALSE stands for binascii.Error
b64decode(s) ==
    LET st == A2bLoop(s, 1, [quad_pos |-> 0, leftchar |-> 0, pads |-> 0,
                             out |-> <<>>, done |-> FALSE])
    IN IF st.done \/ st.quad_pos = 0
       THEN [ok |-> TRUE, data |-> st.out]
       ELSE [ok |-> FALSE, data |-> <<>>]

\* the standard encoding a client applies to the bytes it uploads (RFC 4648)
RECURSIVE b64encode(_)
b64encode(d) ==
    IF Len(d) = 0 THEN <<>>
    ELSE IF Len(d) = 1 THEN
        <<B64Char(d[1] \div 4), B64Char((d[1] % 4) * 16), PadChar, PadChar>>
    ELSE IF Len(d) = 2 THEN
        <<B64Char(d[1] \div 4), B64Char((d[1] % 4) * 16 + d[2] \div 16),
          B64Char((d[2] % 16) * 4), PadChar>>
    ELSE <<B64Char(d[1] \div 4), B64Char((d[1] % 4) * 16 + d[2] \div 16),
           B64Char((d[2] % 16) * 4 + d[3] \div 64), B64Char(d[3] % 64)>>
         \o b64encode(SubSeq(d, 4, Len(d)))

\* text that is base64 in the sense of RFC 4648: whole quads of alphabet
\* characters, the last quad possibly ending in one or two pad characters
ValidBase64(s) ==
    /\ Len(s) % 4 = 0
    /\ \A i \in 1..Len(s) :
          \/ B64Val(s[i]) < 64
          \/ /\ s[i] = PadChar
             /\ i >= Len(s) - 1
             /\ \A j \in i..Len(s) : s[j] = PadChar


-----------------------------------------------------------------------------
(* JSON values of a payload, and Python's int() on them.  A number is the    *)
(* fraction n/d (d = 1 for an int, d >= 1 for a finite float).               *)

JMissing == [t |-> "missing", n |-> 0, d |-> 1, s |-> <<>>]
JNull == [t |-> "null", n |-> 0, d |-> 1, s |-> <<>>]
JNum(n) == [t |-> "num", n |-> n, d |-> 1, s |-> <<>>]
JFloat(n, d) == [t |-> "float", n |-> n, d |-> d, s |-> <<>>]
\* the floats json.loads gives for NaN, Infinity, -Infinity and 1e999
JNonFinite == [t |-> "nonfinite", n |-> 0, d |-> 1, s |-> <<>>]
JBool(b) == [t |-> "bool", n |-> IF b THEN 1 ELSE 0, d |-> 1, s |-> <<>>]
JStr(s) == [t |-> "str", n |-> 0, d |-> 1, s |-> s]

\* the code points of the digit zero of every Unicode decimal digit range
DigitZeros ==
    {48, 1632, 1776, 1984, 2406, 2534, 2662, 2790, 2918, 3046, 3174, 3302,
     3430, 3558, 3664, 3792, 3872, 4160, 4240, 6112, 6160, 6470, 6608, 6784,
     6800, 6992, 7088, 7232, 7248, 42528, 43216, 43264, 43472, 43504, 43600,
     44016, 65296, 66720, 68912, 69734, 69872, 69942, 70096, 70384, 70736,
     70864, 71248, 71360, 71472, 71904, 72016, 72784, 73040, 73120, 92768,
     92864, 93008, 120782, 120792, 120802, 120812, 120822, 123200, 123632,
     125264, 130032}

\* a decimal digit to int(): an ASCII digit or any Unicode decimal digit
IsDigit(c) == \E z \in DigitZeros : c >= z /\ c <= z + 9

\* the digit's value
DigitVal(c) == c - (CHOOSE z \in DigitZeros : c >= z /\ c <= z + 9)

\* whitespace to int(): ASCII whitespace and every Unicode whitespace
IsSpace(c) ==
    \/ c \in {9, 10, 11, 12, 13, 32, 133, 160, 5760, 8232, 8233, 8239, 8287, 12288}
    \/ (c >= 8192 /\ c <= 8202)

RECURSIVE LStrip(_)
LStrip(s) == IF s # <<>> /\ IsSpace(Head(s)) THEN LStrip(Tail(s)) ELSE s

RECURSIVE RStrip(_)
RStrip(s) ==
    IF s # <<>> /\ IsSpace(s[Len(s)]) THEN RStrip(SubSeq(s, 1, Len(s) - 1)) ELSE s

RECURSIVE DigitsValue(_, _)
DigitsValue(s, acc) ==
    IF s = <<>> THEN acc
    ELSE IF Head(s) = 95 THEN DigitsValue(Tail(s), acc)
    ELSE DigitsValue(Tail(s), acc * 10 + DigitVal(Head(s)))

\* int(s) for a str: surrounding whitespace, an optional sign, decimal digits
\* with single underscores between them
IntOfStr(s) ==
    LET body == RStrip(LStrip(s))
        signed == body # <<>> /\ Head(body) \in {43, 45}
        digits == IF signed THEN Tail(body) ELSE body
        wellformed ==
            /\ digits # <<>>
            /\ IsDigit(digits[1]) /\ IsDigit(digits[Len(digits)])
            /\ \A i \in 1..Len(digits) : IsDigit(digits[i]) \/ digits[i] = 95
            /\ \A i \in 1..(Len(digits) - 1) : ~(digits[i] = 95 /\ digits[i + 1] = 95)
    IN IF ~wellformed THEN [ok |-> FALSE, val |-> 0]
       ELSE [ok |-> TRUE,
             val |-> IF signed /\ Head(body) = 45
                     THEN 0 - DigitsValue(digits, 0) ELSE DigitsValue(digits, 0)]

\* int() of a finite float: truncation towards zero
Trunc(n, d) == IF n >= 0 THEN n \div d ELSE 0 - ((0 - n) \div d)

\* int(v): ok = FALSE stands for the TypeError, ValueError or OverflowError
\* it raises
PyInt(v) ==
    CASE v.t \in {"num", "bool"} -> [ok |-> TRUE, val |-> v.n]
      [] v.t = "float" -> [ok |-> TRUE, val |-> Trunc(v.n, v.d)]
      [] v.t = "str" -> IntOfStr(v.s)
      [] OTHER -> [ok |-> FALSE, val |-> 0]

\* str.encode(): the UTF-8 bytes of one character; a surrogate has none
Utf8Char(c) ==
    IF c < 128 THEN <<c>>
    ELSE IF c < 2048 THEN <<192 + (c \div 64), 128 + (c % 64)>>
    ELSE IF c < 65536 THEN
        <<224 + (c \div 4096), 128 + ((c \div 64) % 64), 128 + (c % 64)>>
    ELSE <<240 + (c \div 262144), 128 + ((c \div 4096) % 64),
           128 + ((c \div 64) % 64), 128 + (c % 64)>>

IsSurrogate(c) == c >= 55296 /\ c <= 57343

RECURSIVE Utf8Bytes(_)
Utf8Bytes(s) == IF s = <<>> THEN <<>> ELSE Utf8Char(Head(s)) \o Utf8Bytes(Tail(s))

\* s.encode(): ok = FALSE stands for UnicodeEncodeError
StrEncode(s) ==
    IF \E i \in 1..Len(s) : IsSurrogate(s[i])
    THEN [ok |-> FALSE, data |-> <<>>]
    ELSE [ok |-> TRUE, data |-> Utf8Bytes(s)]

-----------------------------------------------------------------------------
(* Typed errors and their rendering.                                         *)

NoData == [json |-> FALSE, dict |-> FALSE, file |-> JMissing, id |-> JMissing,
           mimetype |-> JMissing, none |-> TRUE]

HttpError(status_code, text, data) ==
    [status_code |-> status_code, message |-> [text |-> text, data |-> data]]

\* NotFoundError(): the 404 error of a denied or absent mediafile
NotFoundError == HttpError(404, "not found", NoData)

\* BadRequestError(message): a 400 error
BadRequestError(text, data) == HttpError(400, text, data)

\* the uniform error envelope with the error's status code
handle_view_error(error) ==
    [status_code |-> error.status_code,
     json |-> [success |-> FALSE, message |-> error.message]]

-----------------------------------------------------------------------------
(* The Database object: a key-value store of (data, mimetype) rows.          *)

EmptyDatabase == [i \in {} |-> [data |-> <<>>, mimetype |-> JMissing]]

\* database.set_mediafile(media_id, media, mimetype): an upsert
set_mediafile(db, media_id, media, mimetype) ==
    [i \in DOMAIN db \cup {media_id} |->
        IF i = media_id THEN [data |-> media, mimetype |-> mimetype] ELSE db[i]]

\* database.get_mediafile(media_id): the row, or NotFoundError raised
get_mediafile(db, media_id) ==
    IF media_id \in DOMAIN db
    THEN [found |-> TRUE, data |-> db[media_id].data,
          mimetype |-> db[media_id].mimetype, error |-> NotFoundError]
    ELSE [found |-> FALSE, data |-> <<>>, mimetype |-> JMissing,
          error |-> NotFoundError]

-----------------------------------------------------------------------------
(* serve: the retrieval handler.                                             *)

\* "content"
ContentWord == <<99, 111, 110, 116, 101, 110, 116>>

\* the keys deleted from the headers before the delegate is asked
del_keys(headers) == {key \in DOMAIN headers : Contains(key, ContentWord)}

\* the headers handed to check_mediafile_id
presenter_headers(headers) ==
    [key \in DOMAIN headers \ del_keys(headers) |-> headers[key]]

\* a slice one byte short: source[i : i + size - 1]
ChunkAtShort(size, source, i) ==
    SubSeq(source, i + 1,
           IF i + size - 1 < Len(source) THEN i + size - 1 ELSE Len(source))

\* the chunk the generator yields at offset i: bytes(source[i : i + size])
ChunkAt(size, source, i) ==
    SubSeq(source, i + 1, IF i + size < Len(source) THEN i + size ELSE Len(source))

RECURSIVE ChunkedFrom(_, _, _)
ChunkedFrom(size, source, i) ==
    IF i >= Len(source) THEN <<>>
    ELSE <<ChunkAt(size, source, i)>> \o ChunkedFrom(size, source, i + size)

\* everything chunked(size, source) yields, in order
chunked(size, source) == ChunkedFrom(size, source, 0)

\* the response serve returns once the delegate allowed the request and the
\* row was found: Response(chunked(block_size, data), mimetype=mimetype),
\* whose generator holds `size` and `source` and has not yet run
ServeResponse(data, mimetype, check, size) ==
    [status_code |-> 200,
     mimetype |-> mimetype,
     disposition |-> check.filename,
     auth |-> check.auth_header,
     size |-> size,
     source |-> data]

\* a denial told apart from an absent mediafile: 403
ServeDeniedForbidden == handle_view_error(HttpError(403, "forbidden", NoData))

\* a denied request: raise NotFoundError()
ServeDenied == handle_view_error(NotFoundError)

\* serve(mediafile_id) on request headers `headers`, with `check` the answer
\* of check_mediafile_id and `size` the configured block size
serve(db, mediafile_id, headers, check, size) ==
    LET passed == presenter_headers(headers)
        row == get_mediafile(db, mediafile_id)
    IN IF ~check.ok
       THEN [response |-> ServeDenied, passed |-> passed]
       ELSE IF ~row.found
       THEN [response |-> handle_view_error(row.error), passed |-> passed]
       ELSE [response |-> ServeResponse(row.data, row.mimetype, check, size),
             passed |-> passed]

-----------------------------------------------------------------------------
(* upload: the upload handler.                                               *)

\* json.loads(request.data.decode())
UploadJson(data) == data.json

\* the text of "file" stored as it came, never decoded
UploadMediaUndecoded(data) ==
    IF data.dict /\ data.file.t = "str"
    THEN StrEncode(data.file.s)
    ELSE [ok |-> FALSE, data |-> <<>>]

\* base64.b64decode(dejson["file"].encode()): fails on a payload that is no
\* object, has no "file", or whose "file" is no str, cannot be encoded or
\* does not decode
UploadMedia(data) ==
    IF data.dict /\ data.file.t = "str" /\ StrEncode(data.file.s).ok
    THEN b64decode(StrEncode(data.file.s).data)
    ELSE [ok |-> FALSE, data |-> <<>>]

\* int(dejson["id"]) and dejson["mimetype"]
UploadFields(data) ==
    LET media_id == PyInt(data.id)
    IN [ok |-> media_id.ok /\ data.mimetype.t # "missing",
        media_id |-> media_id.val,
        mimetype |-> data.mimetype]

\* a write that appends to the row already stored
UploadStoreAppend(db, media_id, media, mimetype) ==
    set_mediafile(db, media_id,
                  (IF media_id \in DOMAIN db THEN db[media_id].data ELSE <<>>) \o media,
                  mimetype)

\* the store write of a payload that passed every stage
UploadStore(db, media_id, media, mimetype) ==
    set_mediafile(db, media_id, media, mimetype)

UploadOk == [status_code |-> 200, json |-> [success |-> TRUE]]

\* the decoded file written under id 0 before "id" and "mimetype" are read
upload_store_first(db, data) ==
    LET media == UploadMedia(data)
        fields == UploadFields(data)
    IN IF ~UploadJson(data)
       THEN [database |-> db, stored |-> FALSE,
             response |-> handle_view_error(BadRequestError("request.data is not json", NoData))]
       ELSE IF ~media.ok
       THEN [database |-> db, stored |-> FALSE,
             response |-> handle_view_error(BadRequestError("cannot decode base64 file", NoData))]
       ELSE IF ~fields.ok
       THEN [database |-> UploadStore(db, 0, media.data, JNull), stored |-> FALSE,
             response |-> handle_view_error(
                 BadRequestError("The post request.data is not in right format: ", data))]
       ELSE [database |-> UploadStore(db, fields.media_id, media.data, fields.mimetype),
             response |-> UploadOk,
             stored |-> TRUE]

\* upload() on request body `data`: the database afterwards, the response,
\* and whether set_mediafile was called
upload(db, data) ==
    LET media == UploadMedia(data)
        fields == UploadFields(data)
        reject(error) ==
            [database |-> db, response |-> handle_view_error(error), stored |-> FALSE]
    IN IF ~UploadJson(data)
       THEN reject(BadRequestError("request.data is not json", NoData))
       ELSE IF ~media.ok
       THEN reject(BadRequestError("cannot decode base64 file", NoData))
       ELSE IF ~fields.ok
       THEN reject(BadRequestError("The post request.data is not in right format: ", data))
       ELSE [database |-> UploadStore(db, fields.media_id, media.data, fields.mimetype),
             response |-> UploadOk,
             stored |-> TRUE]


-----------------------------------------------------------------------------
(* Requests the specifications draw from.                                    *)

SampleBytes == {65, 255}

\* "image/png", "text/plain"
MimePng == <<105, 109, 97, 103, 101, 47, 112, 110, 103>>
MimeText == <<116, 101, 120, 116, 47, 112, 108, 97, 105, 110>>

Payload(file, id, mimetype) ==
    [json |-> TRUE, dict |-> TRUE, file |-> file, id |-> id, mimetype |-> mimetype]

\* a body that is not JSON, and a JSON body that is not an object
NotJsonPayload ==
    [json |-> FALSE, dict |-> FALSE, file |-> JMissing, id |-> JMissing,
     mimetype |-> JMissing]
NotObjectPayload ==
    [json |-> TRUE, dict |-> FALSE, file |-> JMissing, id |-> JMissing,
     mimetype |-> JMissing]

\* the blobs uploaded: every short one, and two longer ones whose lengths
\* leave a remainder of 0 and of 2 in base64's groups of three bytes
LongBlobs == {<<65, 255, 0>>, <<0, 1, 2, 253, 254>>}
Blobs == SeqsUpTo(SampleBytes, MaxLen) \cup LongBlobs

\* uploads to the id 42 of every blob under both mimetypes
StreamPayloads ==
    {Payload(JStr(b64encode(B)), JNum(42), JStr(m)) :
        B \in Blobs, m \in {MimePng, MimeText}}

\* well-formed uploads: those to 42, and one to the id 7 sent as the text "7"
GoodPayloads ==
    StreamPayloads \cup {Payload(JStr(b64encode(<<65>>)), JStr(<<55>>), JStr(MimePng))}

\* one upload failing at each validation stage: "QUI" lacks its padding
BadPayloads ==
    {NotJsonPayload,
     Payload(JStr(<<81, 85, 73>>), JNum(42), JStr(MimePng)),
     Payload(JStr(b64encode(<<65>>)), JNull, JStr(MimePng))}

ServicePayloads == GoodPayloads \cup BadPayloads

\* the answers of check_mediafile_id: (ok, filename, auth_header)
CheckResults ==
    {[ok |-> FALSE, filename |-> "", auth_header |-> ""],
     [ok |-> TRUE, filename |-> "a.png", auth_header |-> ""],
     [ok |-> TRUE, filename |-> "a.png", auth_header |-> "token"]}

\* a denial, and a grant that names the file and sets the auth header
ServiceChecks ==
    {[ok |-> FALSE, filename |-> "", auth_header |-> ""],
     [ok |-> TRUE, filename |-> "a.png", auth_header |-> "token"]}

ServeIds == {7, 42}

\* header names: Content-Type, CONTENT-LENGTH, content-encoding, X-Mycontent,
\* Authorization, Cookie
HContentType == <<67, 111, 110, 116, 101, 110, 116, 45, 84, 121, 112, 101>>
HContentLengthUpper == <<67, 79, 78, 84, 69, 78, 84, 45, 76, 69, 78, 71, 84, 72>>
HContentEncodingLower ==
    <<99, 111, 110, 116, 101, 110, 116, 45, 101, 110, 99, 111, 100, 105, 110, 103>>
HXMycontent == <<88, 45, 77, 121, 99, 111, 110, 116, 101, 110, 116>>
HAuthorization == <<65, 117, 116, 104, 111, 114, 105, 122, 97, 116, 105, 111, 110>>
HCookie == <<67, 111, 111, 107, 105, 101>>

HeaderNames ==
    {HContentType, HContentLengthUpper, HContentEncodingLower, HXMycontent,
     HAuthorization, HCookie}

HeaderValues == {"v1", "v2"}

\* every request header dict over a set of names, one value per name
HeaderDicts(names) ==
    UNION {[S -> HeaderValues] : S \in SUBSET names}

ServiceHeaders == {[k \in {HCookie, HContentEncodingLower} |-> "v1"]}

-----------------------------------------------------------------------------
(* The actions.  `last` is the upload handled last, `reader` the retrieval   *)
(* under observation: what its handler returned and what its client has      *)
(* received of the response since.                                           *)

NoRequest == [op |-> "none"]
IdleReader == [pc |-> "idle"]
NoRow == [data |-> <<>>, mimetype |-> JMissing]
NoUpload == [file |-> JMissing, mimetype |-> JMissing]

\* POST /internal/media/upload with body `data`; `keep` keeps the body beside
\* the response in `last`
UploadStep(data, keep) ==
    LET r == upload(database, data)
        media_id == UploadFields(data).media_id
        entry == [file |-> data.file, mimetype |-> data.mimetype]
    IN /\ proc = "running"
       /\ database' = r.database
       /\ uploaded' =
            IF r.stored
            THEN [i \in DOMAIN uploaded \cup {media_id} |->
                     IF i = media_id THEN entry ELSE uploaded[i]]
            ELSE uploaded
       /\ last' = [op |-> "upload",
                   response |-> r.response,
                   stored |-> r.stored,
                   repeat |-> /\ r.stored
                              /\ media_id \in DOMAIN uploaded
                              /\ uploaded[media_id] = entry,
                   data |-> IF keep THEN data ELSE NoData]
       /\ UNCHANGED <<proc, shutdown_calls, reader, block_size>>

Upload(data) == UploadStep(data, FALSE)

\* the retrieval as serve leaves it when it returns: the response (for a 200
\* its generator not yet iterated), the headers the delegate was handed, and,
\* for the claims, the row and the upload that were current at that moment
Retrieval(db, ups, mediafile_id, headers, check, size) ==
    LET r == serve(db, mediafile_id, headers, check, size)
        held == mediafile_id \in DOMAIN db
    IN [pc |-> IF r.response.status_code = 200 THEN "streaming" ELSE "failed",
        mediafile_id |-> mediafile_id,
        headers |-> headers,
        check |-> check,
        passed |-> r.passed,
        response |-> r.response,
        held |-> held,
        version |-> IF held THEN db[mediafile_id] ELSE NoRow,
        upload |-> IF mediafile_id \in DOMAIN ups THEN ups[mediafile_id] ELSE NoUpload,
        i |-> 0,
        received |-> <<>>]

\* GET /system/media/get/<mediafile_id>: the handler, up to its return.  The
\* body of a 200 is produced afterwards, by EmitChunk and EndStream.
Serve(mediafile_id, headers, check) ==
    /\ proc = "running"
    /\ reader' = Retrieval(database, uploaded, mediafile_id, headers, check, block_size)
    /\ UNCHANGED <<database, uploaded, last, proc, shutdown_calls, block_size>>

\* the row read again from the database for every chunk
StreamSourceLive(rd, db) == db[rd.mediafile_id].data

\* the bytes the generator slices: the `data` serve read before it returned
StreamSource(rd, db) == rd.response.source

\* the server iterates the response: the generator yields its next chunk
EmitChunk ==
    LET source == StreamSource(reader, database)
    IN /\ proc = "running"
       /\ reader.pc = "streaming"
       /\ reader.i < Len(source)
       /\ reader' = [reader EXCEPT
                        !.received = Append(@, ChunkAt(block_size, source, reader.i)),
                        !.i = @ + block_size]
       /\ UNCHANGED <<database, uploaded, last, proc, shutdown_calls, block_size>>

\* the range is exhausted: the response is complete
EndStream ==
    /\ proc = "running"
    /\ reader.pc = "streaming"
    /\ reader.i >= Len(StreamSource(reader, database))
    /\ reader' = [reader EXCEPT !.pc = "done"]
    /\ UNCHANGED <<database, uploaded, last, proc, shutdown_calls, block_size>>

InitService ==
    /\ database = EmptyDatabase
    /\ uploaded = [i \in {} |-> NoUpload]
    /\ last = NoRequest
    /\ proc = "running"
    /\ shutdown_calls = 0
    /\ reader = IdleReader

Init ==
    /\ InitService
    /\ block_size \in 1..MaxBlock

\* uploads and retrievals in any order, an upload possibly handled between
\* the return of serve and the end of the response it returned
Next ==
    \/ \E data \in ServicePayloads : Upload(data)
    \/ \E mediafile_id \in ServeIds, headers \in ServiceHeaders, check \in ServiceChecks :
          Serve(mediafile_id, headers, check)
    \/ EmitChunk
    \/ EndStream

Spec == Init /\ [][Next]_vars

-----------------------------------------------------------------------------
(* The end of the process.  atexit.register(shutdown, database) makes the    *)
(* interpreter call shutdown(database) when it finalizes.  It finalizes on a *)
(* normal exit and on SIGINT (KeyboardInterrupt); a SIGTERM ends the process *)
(* without finalization unless the hosting server installed a handler that  *)
(* turns it into an exit; SIGKILL cannot be caught.                          *)

\* shutdown(database): database.shutdown() is called
shutdown(calls) == calls + 1

\* the interpreter finalizes: the registered hooks run, once
AtExit(cause) ==
    /\ proc = "running"
    /\ proc' = cause
    /\ shutdown_calls' = shutdown(shutdown_calls)
    /\ UNCHANGED <<database, uploaded, last, reader, block_size>>

\* the process is ended by the kernel: no hook runs
Killed(cause) ==
    /\ proc = "running"
    /\ proc' = cause
    /\ UNCHANGED <<database, uploaded, last, shutdown_calls, reader, block_size>>

ExitNormal == AtExit("exit")

Sigint == AtExit("sigint")

\* the module installs no SIGTERM handler of its own
Sigterm ==
    \E handled \in BOOLEAN :
        IF handled THEN AtExit("sigterm_exit") ELSE Killed("sigterm")

Sigkill == Killed("sigkill")

\* one identifier, its uploads and retrievals interleaved, and the process
\* ending at any moment
NextStream ==
    \/ \E data \in StreamPayloads : Upload(data)
    \/ \E check \in ServiceChecks :
          Serve(42, [k \in {HCookie} |-> "v1"], check)
    \/ EmitChunk
    \/ EndStream
    \/ ExitNormal
    \/ Sigint
    \/ Sigterm
    \/ Sigkill

SpecStream == Init /\ [][NextStream]_vars


-----------------------------------------------------------------------------
(* The chunk generator alone: a stored blob of any length up to MaxSrcLen,   *)
(* any block size up to MaxSize, the response of a retrieval about to be     *)
(* iterated.                                                                 *)

InitChunk ==
    \E source \in SeqsUpTo(SampleBytes, MaxSrcLen) :
        LET row == [data |-> source, mimetype |-> JStr(MimePng)]
            db == [i \in {42} |-> row]
            ups == [i \in {42} |->
                      [file |-> JStr(b64encode(source)), mimetype |-> JStr(MimePng)]]
        IN /\ database = db
           /\ uploaded = ups
           /\ last = NoRequest
           /\ proc = "running"
           /\ shutdown_calls = 0
           /\ block_size \in 1..MaxSize
           /\ reader = Retrieval(db, ups, 42, [k \in {HCookie} |-> "v1"],
                                 [ok |-> TRUE, filename |-> "a.png", auth_header |-> ""],
                                 block_size)

NextChunk == EmitChunk \/ EndStream

SpecChunk == InitChunk /\ [][NextChunk]_vars

-----------------------------------------------------------------------------
(* One retrieval under every set of request headers.                         *)

NextHeaders ==
    /\ reader = IdleReader
    /\ \E mediafile_id \in ServeIds, headers \in HeaderDicts(HeaderNames),
          check \in CheckResults :
             Serve(mediafile_id, headers, check)

SpecHeaders == Init /\ [][NextHeaders]_vars

-----------------------------------------------------------------------------
(* One upload of every shape of body against the empty database.             *)

\* Q U = !
FileChars == {81, 85, 61, 33}

\* texts outside ASCII: a lone surrogate, "QQ==" followed by one, and e acute
FileSpecials == {<<55296>>, <<81, 81, 61, 61, 55296>>, <<233>>}

FileValues ==
    {JMissing, JNull, JNum(5)}
        \cup {JStr(s) : s \in SeqsUpTo(FileChars, MaxFileLen) \cup FileSpecials}

\* absent, null, 42, "42", "x", true, 42.5, -0.5, a float that is not finite,
\* and " 42 " written with a no-break space, Arabic-Indic digits and an
\* ideographic space
IdValues ==
    {JMissing, JNull, JNum(42), JStr(<<52, 50>>), JStr(<<120>>), JBool(TRUE),
     JFloat(85, 2), JFloat(0 - 1, 2), JNonFinite,
     JStr(<<160, 1636, 1634, 12288>>)}

MimetypeValues == {JMissing, JNull, JNum(5), JStr(MimePng)}

AllPayloads ==
    {NotJsonPayload, NotObjectPayload} \cup
    {Payload(f, i, m) : f \in FileValues, i \in IdValues, m \in MimetypeValues}

NextValidate ==
    /\ last = NoRequest
    /\ \E data \in AllPayloads : UploadStep(data, TRUE)

SpecValidate == Init /\ [][NextValidate]_vars


-----------------------------------------------------------------------------
(* The claims.                                                               *)

NotFoundEnvelope ==
    [status_code |-> 404,
     json |-> [success |-> FALSE, message |-> [text |-> "not found", data |-> NoData]]]

BadBase64Envelope ==
    [status_code |-> 400,
     json |-> [success |-> FALSE,
               message |-> [text |-> "cannot decode base64 file", data |-> NoData]]]

WrongFormatEnvelope(data) ==
    [status_code |-> 400,
     json |-> [success |-> FALSE,
               message |-> [text |-> "The post request.data is not in right format: ",
                            data |-> data]]]

\* C1: a retrieval the delegate allows, of an id that had been uploaded when
\* it was handled, answers 200 with the mimetype of the upload that was then
\* the last to succeed for that id, and delivers a prefix of the bytes B
\* whose base64 that upload sent: all of B once the response is complete,
\* whatever was uploaded while it was being delivered.
C1_RoundTrip ==
    (reader.pc # "idle" /\ reader.check.ok /\ reader.upload # NoUpload) =>
        LET u == reader.upload
            joined == Concat(reader.received)
        IN /\ reader.pc \in {"streaming", "done"}
           /\ reader.response.status_code = 200
           /\ reader.response.mimetype = u.mimetype
           /\ \E B \in Blobs :
                 /\ u.file = JStr(b64encode(B))
                 /\ Len(joined) <= Len(B)
                 /\ joined = SubSeq(B, 1, Len(joined))
                 /\ reader.pc = "done" => joined = B

\* id 42 uploaded as image/png with the bytes <<0, 1, 2, 253, 254>>, id 7
\* uploaded too, 42 retrieved and delivered to its end in more than one
\* chunk, and 42 uploaded again before the delivery ended
C1_Witness ==
    /\ reader.pc = "done" /\ reader.check.ok /\ reader.mediafile_id = 42
    /\ reader.upload = [file |-> JStr(b64encode(<<0, 1, 2, 253, 254>>)),
                        mimetype |-> JStr(MimePng)]
    /\ 7 \in DOMAIN uploaded
    /\ uploaded[42] # reader.upload
    /\ reader.response.status_code = 200
    /\ reader.response.mimetype = JStr(MimePng)
    /\ Len(reader.received) > 1
    /\ Concat(reader.received) = <<0, 1, 2, 253, 254>>

\* C2: a retrieval the delegate denies and a retrieval it allows of an id
\* the store does not hold are answered with one and the same response, the
\* 404 not-found envelope, whatever the id and whatever the store holds.
C2_SameNotFound ==
    (reader.pc # "idle" /\ (~reader.check.ok \/ ~reader.held)) =>
        reader.pc = "failed" /\ reader.response = NotFoundEnvelope

\* a denied retrieval of an id the store holds
C2_Witness ==
    /\ reader.pc = "failed"
    /\ ~reader.check.ok
    /\ reader.held
    /\ reader.mediafile_id \in DOMAIN database
    /\ reader.response = NotFoundEnvelope

\* C3: the chunks emitted so far are each non-empty and at most block_size
\* long, all but the last exactly block_size long, there are at most as many
\* as the blob has bytes, and they concatenate to a prefix of the stored
\* bytes; once the stream has ended they concatenate to all of them.
C3_Chunking ==
    reader.pc \in {"streaming", "done"} =>
        LET stored == database[reader.mediafile_id].data
            got == reader.received
            joined == Concat(got)
        IN /\ \A k \in 1..Len(got) : Len(got[k]) >= 1 /\ Len(got[k]) <= block_size
           /\ \A k \in 1..(Len(got) - 1) : Len(got[k]) = block_size
           /\ Len(got) <= Len(stored)
           /\ Len(joined) <= Len(stored)
           /\ joined = SubSeq(stored, 1, Len(joined))
           /\ reader.pc = "done" => joined = stored

\* a stream that ended after several chunks, the last one shorter
C3_Witness ==
    /\ reader.pc = "done"
    /\ Len(reader.received) >= 2
    /\ Len(reader.received[Len(reader.received)]) < block_size
    /\ Concat(reader.received) = database[reader.mediafile_id].data

\* C4: no header whose name contains "content" in any letter case reaches
\* the delegate, and every other request header reaches it unchanged.
C4_HeadersFiltered ==
    reader.pc # "idle" =>
        /\ \A key \in DOMAIN reader.passed : ~Contains(Lower(key), ContentWord)
        /\ \A key \in DOMAIN reader.headers :
              ~Contains(Lower(key), ContentWord) =>
                  key \in DOMAIN reader.passed /\ reader.passed[key] = reader.headers[key]

FileIsBase64(data) ==
    data.dict /\ data.file.t = "str" /\ ValidBase64(data.file.s)

\* C5: a JSON upload whose "file" is not valid base64 is answered 400
\* "cannot decode base64 file" and writes nothing; an upload that writes
\* had a "file" that is valid base64.
C5_BadBase64Rejected ==
    (last.op = "upload" /\ last.data.json) =>
        /\ ~FileIsBase64(last.data) =>
              last.response = BadBase64Envelope /\ ~last.stored
        /\ last.stored => FileIsBase64(last.data)

\* C6: a JSON upload with a valid base64 "file" whose "id" is missing or
\* does not coerce to an integer, or whose "mimetype" is missing or no
\* string, is answered 400 with the wrong-format message echoing the body
\* and writes nothing.
C6_WrongFormatRejected ==
    (/\ last.op = "upload" /\ last.data.json /\ FileIsBase64(last.data)
     /\ \/ ~PyInt(last.data.id).ok
        \/ last.data.mimetype.t # "str") =>
        last.response = WrongFormatEnvelope(last.data) /\ ~last.stored

\* C7: a successful upload whose id, file and mimetype are those of the
\* last successful upload for that id leaves the database as it was.
C7_Idempotent ==
    [][(last'.op = "upload" /\ last'.repeat) => database' = database]_vars

\* an upload has just repeated the one before it for its id
C7_Witness ==
    /\ last.op = "upload" /\ last.repeat /\ last.stored
    /\ last.response = UploadOk

ProcessIntercepted == proc \in {"exit", "sigint", "sigterm_exit", "sigterm"}

\* C8: once the process has ended by a normal exit or by a signal that can
\* be caught, shutdown(database) has run exactly once.
C8_ShutdownOnce == ProcessIntercepted => shutdown_calls = 1

\* C9: what a reader has received while uploads to the same id are handled
\* is a prefix of the one version serve read, and at the end of the stream
\* all of it, with that version's mimetype.
C9_OneVersion ==
    reader.pc \in {"streaming", "done"} =>
        LET joined == Concat(reader.received)
        IN /\ reader.response.mimetype = reader.version.mimetype
           /\ Len(joined) <= Len(reader.version.data)
           /\ joined = SubSeq(reader.version.data, 1, Len(joined))
           /\ reader.pc = "done" => joined = reader.version.data

\* a stream that has emitted a chunk and has more to emit while the row of
\* its id has been overwritten with other bytes and another mimetype
C9_Witness ==
    /\ reader.pc = "streaming"
    /\ Len(reader.received) >= 1
    /\ reader.i < Len(reader.version.data)
    /\ database[reader.mediafile_id].data # reader.version.data
    /\ database[reader.mediafile_id].mimetype # reader.version.mimetype

\* C10: a step of a retrieval (its handler, or the delivery of a chunk or of
\* the end of its response), and an upload answered with an error, leave the
\* database as it was; the database changes only in a step that handles an
\* upload answered 200.
C10_OnlyUploadWrites ==
    [][/\ (\/ reader' # reader
           \/ (last'.op = "upload" /\ last'.response.status_code # 200))
          => database' = database
       /\ database' # database =>
             (/\ last'.op = "upload" /\ last'.stored /\ last'.response = UploadOk
              /\ reader' = reader)]_vars

\* a rejected upload against a database that holds a row, after a retrieval
\* of that row was delivered to its end
C10_Witness ==
    /\ last.op = "upload"
    /\ last.response.status_code = 400
    /\ ~last.stored
    /\ reader.pc = "done"
    /\ reader.mediafile_id \in DOMAIN database


=============================================================================
